---- MODULE Spec2Model ----
(***************************************************************************)
(* freight: the coordination core of the migration daemon.                 *)
(*   socket.rs  - wire protocol decoding, per-connection handler, worker   *)
(*                registry, broadcast bus                                  *)
(*   worker.rs  - WorkerManager: discovery, scan/migrate process launch,   *)
(*                phase advancement on bus messages                        *)
(* Strings are TLA+ strings; Option<T> is <<>> (None) or <<v>> (Some(v)).  *)
(***************************************************************************)
EXTENDS Integers, Sequences, FiniteSets, TLC

VARIABLES
    config,        \* WorkerManager.config: None or Some([source_path, dest_path])
    mgr_pc,        \* where the WorkerManager task is: new, scanning, listening, stopped
    directories,   \* start_migration: the discovered directories not yet iterated
    mgr_workers,   \* WorkerManager.workers: worker_id -> WorkerInfo
    children,      \* processes spawned by Command::spawn, in spawn order
    spawns,        \* history: every Command::spawn call, [tool, directory, ok]
    seen_ok,       \* history: directories whose ok scan Stop the manager matched
    workers,       \* SocketServer.workers: the registry, id -> WorkerState
    conn,          \* per connection: handler position (idle, read, send, closed on
                   \* end-of-stream, failed on a read error, panicked), worker_id,
                   \* decoded message
    nread,         \* per connection: lines read so far
    pairs,         \* history: the (tool, directory) of every message decoded
    bus_queue,     \* broadcast channel: messages retained and unread by message_rx
    rx_lag,        \* broadcast channel: unread messages overwritten for message_rx
    rx_alive,      \* whether message_rx still exists (not dropped)
    bus_stops,     \* history: Stop messages the channel accepted
    lost_stops,    \* history: Stop messages overwritten before message_rx read them
    bursts,        \* number of line bursts taken
    input,         \* per connection: the lines its peer writes, where the run fixes them
    daemon         \* where start_migration_daemon is: running (at its select!) or stopped

vars == <<config, mgr_pc, directories, mgr_workers, children, spawns, seen_ok,
          workers, conn, nread, pairs, bus_queue, rx_lag, rx_alive, bus_stops,
          lost_stops, bursts, input, daemon>>

mgr_vars == <<config, mgr_pc, directories, mgr_workers, children, spawns, seen_ok>>

sock_vars == <<workers, conn, nread, pairs>>

bus_vars == <<bus_queue, rx_lag, rx_alive, bus_stops, lost_stops>>

----------------------------------------------------------------------------
(* Bounds of the model *)

\* connections accepted during a run
NumConns == 2

\* lines read over all connections, line by line
MaxLines == 2

\* bursts of identical lines read in one go
MaxBursts == 1

\* lines a peer writes to its connection, where the run fixes them
MaxInput == 2

----------------------------------------------------------------------------
(* Option and string helpers *)

None == <<>>

Some(v) == <<v>>

IsSome(o) == o # <<>>

UnwrapOr(o, d) == IF o = <<>> THEN d ELSE o[1]

Char(s, i) == SubSeq(s, i, i)

\* str::starts_with
StartsWith(s, p) == Len(s) >= Len(p) /\ SubSeq(s, 1, Len(p)) = p

\* str::strip_prefix
StripPrefix(s, p) == IF StartsWith(s, p) THEN Some(SubSeq(s, Len(p) + 1, Len(s))) ELSE None

IsWhitespace(ch) == ch \in {" ", "\t", "\n", "\r"}

RECURSIVE SplitFrom(_, _, _)
\* the tokens of s from index i on, cur being the token under construction
SplitFrom(s, i, cur) ==
    IF i > Len(s)
    THEN IF cur = "" THEN <<>> ELSE <<cur>>
    ELSE IF IsWhitespace(Char(s, i))
         THEN (IF cur = "" THEN <<>> ELSE <<cur>>) \o SplitFrom(s, i + 1, "")
         ELSE SplitFrom(s, i + 1, cur \o Char(s, i))

\* str::split_whitespace().collect()
SplitWhitespace(s) == SplitFrom(s, 1, "")

RECURSIVE TrimStart(_)
TrimStart(s) ==
    IF s # "" /\ IsWhitespace(Char(s, 1)) THEN TrimStart(SubSeq(s, 2, Len(s))) ELSE s

RECURSIVE TrimEnd(_)
TrimEnd(s) ==
    IF s # "" /\ IsWhitespace(Char(s, Len(s))) THEN TrimEnd(SubSeq(s, 1, Len(s) - 1)) ELSE s

\* str::trim
Trim(s) == TrimEnd(TrimStart(s))

Digits == <<"0", "1", "2", "3", "4", "5", "6", "7", "8", "9">>

IsDigit(ch) == \E d \in 1..10 : Digits[d] = ch

DigitVal(ch) == (CHOOSE d \in 1..10 : Digits[d] = ch) - 1

RECURSIVE StripZeros(_)
StripZeros(s) ==
    IF Len(s) > 1 /\ Char(s, 1) = "0" THEN StripZeros(SubSeq(s, 2, Len(s))) ELSE s

RECURSIVE NumeralLeq(_, _)
\* a <= b for two numerals of the same length
NumeralLeq(a, b) ==
    IF a = "" THEN TRUE
    ELSE IF DigitVal(Char(a, 1)) < DigitVal(Char(b, 1)) THEN TRUE
    ELSE IF DigitVal(Char(a, 1)) > DigitVal(Char(b, 1)) THEN FALSE
    ELSE NumeralLeq(SubSeq(a, 2, Len(a)), SubSeq(b, 2, Len(b)))

RECURSIVE NumeralVal(_, _)
NumeralVal(s, acc) ==
    IF s = "" THEN acc ELSE NumeralVal(SubSeq(s, 2, Len(s)), acc * 10 + DigitVal(Char(s, 1)))

\* a parse that yields zero where the numeral is not valid
ParseUnsigned_zero_on_error(s, max) ==
    LET body == IF StartsWith(s, "+") THEN SubSeq(s, 2, Len(s)) ELSE s
        num  == StripZeros(body)
    IN  IF body = "" \/ \E i \in 1..Len(body) : ~IsDigit(Char(body, i)) THEN Some(0)
        ELSE IF Len(num) > Len(max) \/ (Len(num) = Len(max) /\ ~NumeralLeq(num, max)) THEN Some(0)
        ELSE Some(NumeralVal(num, 0))

\* str::parse::<uN>().ok(): an optional '+', then one or more digits, no overflow
\* of the type whose largest value is the numeral max
ParseUnsigned(s, max) ==
    LET body == IF StartsWith(s, "+") THEN SubSeq(s, 2, Len(s)) ELSE s
        num  == StripZeros(body)
    IN  IF body = "" \/ \E i \in 1..Len(body) : ~IsDigit(Char(body, i)) THEN None
        ELSE IF Len(num) > Len(max) \/ (Len(num) = Len(max) /\ ~NumeralLeq(num, max)) THEN None
        ELSE Some(NumeralVal(num, 0))

U32Max == "4294967295"

U64Max == "18446744073709551615"

----------------------------------------------------------------------------
(* socket.rs: the wire protocol *)

\* struct WorkerMessage
WorkerMessage(message_type, tool, directory, status, bytes, message, host, pid) ==
    [message_type |-> message_type, tool |-> tool, directory |-> directory,
     status |-> status, bytes |-> bytes, message |-> message, host |-> host, pid |-> pid]

\* a HELLO arm that also reads tool= and dir=
HelloPart_reads_tool(m, part) ==
    IF IsSome(StripPrefix(part, "host=")) THEN [m EXCEPT !.host = StripPrefix(part, "host=")]
    ELSE IF IsSome(StripPrefix(part, "pid="))
         THEN [m EXCEPT !.pid = ParseUnsigned(StripPrefix(part, "pid=")[1], U32Max)]
    ELSE IF IsSome(StripPrefix(part, "tool=")) THEN [m EXCEPT !.tool = StripPrefix(part, "tool=")[1]]
    ELSE IF IsSome(StripPrefix(part, "dir=")) THEN [m EXCEPT !.directory = StripPrefix(part, "dir=")]
    ELSE m

\* the body of the HELLO arm's for loop, for one part
HelloPart(m, part) ==
    IF IsSome(StripPrefix(part, "host=")) THEN [m EXCEPT !.host = StripPrefix(part, "host=")]
    ELSE IF IsSome(StripPrefix(part, "pid="))
         THEN [m EXCEPT !.pid = ParseUnsigned(StripPrefix(part, "pid=")[1], U32Max)]
    ELSE m

\* the body of the START arm's for loop, for one part
StartPart(m, part) ==
    IF IsSome(StripPrefix(part, "tool=")) THEN [m EXCEPT !.tool = StripPrefix(part, "tool=")[1]]
    ELSE IF IsSome(StripPrefix(part, "dir=")) THEN [m EXCEPT !.directory = StripPrefix(part, "dir=")]
    ELSE m

\* the body of the PROGRESS arm's for loop, for one part
ProgressPart(m, part) ==
    IF IsSome(StripPrefix(part, "tool=")) THEN [m EXCEPT !.tool = StripPrefix(part, "tool=")[1]]
    ELSE IF IsSome(StripPrefix(part, "dir=")) THEN [m EXCEPT !.directory = StripPrefix(part, "dir=")]
    ELSE IF IsSome(StripPrefix(part, "msg=")) THEN [m EXCEPT !.message = StripPrefix(part, "msg=")]
    ELSE IF IsSome(StripPrefix(part, "bytes="))
         THEN [m EXCEPT !.bytes = ParseUnsigned(StripPrefix(part, "bytes=")[1], U64Max)]
    ELSE m

\* the body of the STOP arm's for loop, for one part
StopPart(m, part) ==
    IF IsSome(StripPrefix(part, "tool=")) THEN [m EXCEPT !.tool = StripPrefix(part, "tool=")[1]]
    ELSE IF IsSome(StripPrefix(part, "dir=")) THEN [m EXCEPT !.directory = StripPrefix(part, "dir=")]
    ELSE IF IsSome(StripPrefix(part, "status=")) THEN [m EXCEPT !.status = StripPrefix(part, "status=")]
    ELSE IF IsSome(StripPrefix(part, "bytes="))
         THEN [m EXCEPT !.bytes = ParseUnsigned(StripPrefix(part, "bytes=")[1], U64Max)]
    ELSE IF IsSome(StripPrefix(part, "msg=")) THEN [m EXCEPT !.message = StripPrefix(part, "msg=")]
    ELSE m

PartOf(kind, m, part) ==
    CASE kind = "Hello" -> HelloPart(m, part)
      [] kind = "Start" -> StartPart(m, part)
      [] kind = "Progress" -> ProgressPart(m, part)
      [] OTHER -> StopPart(m, part)

RECURSIVE ForParts(_, _, _, _)
\* for part in &parts[from..]: the parts from index i (1-based) to the end, in order
ForParts(kind, parts, i, m) ==
    IF i > Len(parts) THEN m ELSE ForParts(kind, parts, i + 1, PartOf(kind, m, parts[i]))

\* fn parse_worker_message: [res |-> "Ok", message |-> m], [res |-> "Err"], or
\* [res |-> "Panic"] where slicing &parts[2..] is out of range
parse_worker_message(line) ==
    LET parts == SplitWhitespace(line)
        Ok(kind, tool, from) ==
            [res |-> "Ok",
             message |-> ForParts(kind, parts, from,
                                  WorkerMessage(kind, tool, None, None, None, None, None, None))]
    IN  IF parts = <<>> THEN [res |-> "Err"]
        ELSE CASE parts[1] = "HELLO" ->
                      IF Len(parts) < 2 THEN [res |-> "Panic"] ELSE Ok("Hello", "unknown", 3)
               [] parts[1] = "START" -> Ok("Start", "unknown", 2)
               [] parts[1] = "PROGRESS" -> Ok("Progress", "unknown", 2)
               [] parts[1] = "STOP" -> Ok("Stop", "unknown", 2)
               [] OTHER -> [res |-> "Err"]

\* format!("{}:{}", message.tool, message.directory.as_deref().unwrap_or("unknown"))
WorkerId(message) == message.tool \o ":" \o UnwrapOr(message.directory, "unknown")

RECURSIVE NatToString(_)
\* the decimal numeral of n
NatToString(n) ==
    IF n < 10 THEN Digits[n + 1] ELSE NatToString(n \div 10) \o Digits[(n % 10) + 1]

\* " key=value" for a present field, nothing for an absent one
EncodeField(key, o) == IF o = None THEN "" ELSE " " \o key \o o[1]

\* serialization, the mirror of parsing: the kind token, then a key=value token
\* for each field the kind recognizes and the message carries
Encode(m) ==
    LET bytes == IF m.bytes = None THEN None ELSE Some(NatToString(m.bytes[1]))
        pid == IF m.pid = None THEN None ELSE Some(NatToString(m.pid[1]))
    IN  CASE m.message_type = "Hello" ->
                 "HELLO" \o EncodeField("host=", m.host) \o EncodeField("pid=", pid)
          [] m.message_type = "Start" ->
                 "START" \o EncodeField("tool=", Some(m.tool)) \o EncodeField("dir=", m.directory)
          [] m.message_type = "Progress" ->
                 "PROGRESS" \o EncodeField("tool=", Some(m.tool)) \o EncodeField("dir=", m.directory)
                     \o EncodeField("msg=", m.message) \o EncodeField("bytes=", bytes)
          [] OTHER ->
                 "STOP" \o EncodeField("tool=", Some(m.tool)) \o EncodeField("dir=", m.directory)
                     \o EncodeField("status=", m.status) \o EncodeField("bytes=", bytes)
                     \o EncodeField("msg=", m.message)

----------------------------------------------------------------------------
(* socket.rs: the broadcast channel between the handlers and message_rx *)

\* broadcast::channel(1000)
BusCapacity == 1000

\* The unread part of the channel's buffer is kept run-length encoded: a
\* sequence of [m |-> message, n |-> count], oldest first.
RECURSIVE QLen(_)
QLen(q) == IF q = <<>> THEN 0 ELSE q[1].n + QLen(Tail(q))

QPush(q, m, n) ==
    IF q # <<>> /\ q[Len(q)].m = m
    THEN [q EXCEPT ![Len(q)].n = @ + n]
    ELSE Append(q, [m |-> m, n |-> n])

RECURSIVE QDrop(_, _)
\* q without its k oldest messages
QDrop(q, k) ==
    IF k = 0 \/ q = <<>> THEN q
    ELSE IF q[1].n > k THEN [q EXCEPT ![1].n = @ - k]
    ELSE QDrop(Tail(q), k - q[1].n)

RECURSIVE QOldest(_, _)
\* the messages among the k oldest of q
QOldest(q, k) ==
    IF k = 0 \/ q = <<>> THEN {}
    ELSE {q[1].m} \cup (IF q[1].n >= k THEN {} ELSE QOldest(Tail(q), k - q[1].n))

\* a send that waits for room in the buffer, as a bounded queue would
Send_waits_for_room(m, n) ==
    /\ QLen(bus_queue) + n <= BusCapacity
    /\ bus_queue' = QPush(bus_queue, m, n)
    /\ bus_stops' = IF m.message_type = "Stop" THEN bus_stops \cup {m} ELSE bus_stops
    /\ UNCHANGED <<rx_lag, rx_alive, lost_stops>>

\* message_tx.send(message), n times in a row: with no receiver the value is
\* returned in an Err (which the handler discards); otherwise the value is
\* stored, overwriting the oldest slot when the buffer is full, and the
\* receiver that had not read that slot has lagged
Send(m, n) ==
    IF ~rx_alive
    THEN UNCHANGED bus_vars
    ELSE LET pushed == QPush(bus_queue, m, n)
             over == IF QLen(pushed) > BusCapacity THEN QLen(pushed) - BusCapacity ELSE 0
         IN  /\ bus_queue' = QDrop(pushed, over)
             /\ rx_lag' = rx_lag + over
             /\ bus_stops' = IF m.message_type = "Stop" THEN bus_stops \cup {m} ELSE bus_stops
             /\ lost_stops' = lost_stops \cup
                                  { x \in QOldest(pushed, over) : x.message_type = "Stop" }
             /\ UNCHANGED rx_alive

\* message_rx goes out of scope: the receiver is dropped
DropReceiver ==
    /\ rx_alive' = FALSE
    /\ bus_queue' = <<>>
    /\ rx_lag' = 0
    /\ UNCHANGED <<bus_stops, lost_stops>>

----------------------------------------------------------------------------
(* socket.rs: the registry and the connection handler *)

Conns == 1..NumConns

Put(f, k, v) == [x \in DOMAIN f \cup {k} |-> IF x = k THEN v ELSE f[x]]

\* the or_insert_with closure
NewWorkerState(message) ==
    [tool |-> message.tool, directory |-> message.directory, status |-> "unknown",
     last_message |-> None, bytes_transferred |-> None, host |-> None, pid |-> None,
     connected |-> TRUE]

\* the match where Start also marks the record connected
ApplyMessage_start_reconnects(worker, message) ==
    CASE message.message_type = "Hello" ->
             [worker EXCEPT !.host = message.host, !.pid = message.pid,
                            !.connected = TRUE, !.status = "connected"]
      [] message.message_type = "Start" ->
             [worker EXCEPT !.status = "running", !.connected = TRUE]
      [] message.message_type = "Progress" ->
             [worker EXCEPT !.last_message = message.message,
                            !.bytes_transferred =
                                IF IsSome(message.bytes) THEN message.bytes ELSE @]
      [] OTHER ->
             [worker EXCEPT !.status = UnwrapOr(message.status, "completed"),
                            !.bytes_transferred =
                                IF IsSome(message.bytes) THEN message.bytes ELSE @]

\* the match where Progress stores the message's bytes whether present or not
ApplyMessage_progress_overwrites_bytes(worker, message) ==
    CASE message.message_type = "Hello" ->
             [worker EXCEPT !.host = message.host, !.pid = message.pid,
                            !.connected = TRUE, !.status = "connected"]
      [] message.message_type = "Start" ->
             [worker EXCEPT !.status = "running"]
      [] message.message_type = "Progress" ->
             [worker EXCEPT !.last_message = message.message,
                            !.bytes_transferred = message.bytes]
      [] OTHER ->
             [worker EXCEPT !.status = UnwrapOr(message.status, "completed"),
                            !.bytes_transferred =
                                IF IsSome(message.bytes) THEN message.bytes ELSE @]

\* match message.message_type { ... } on the record
ApplyMessage(worker, message) ==
    CASE message.message_type = "Hello" ->
             [worker EXCEPT !.host = message.host, !.pid = message.pid,
                            !.connected = TRUE, !.status = "connected"]
      [] message.message_type = "Start" ->
             [worker EXCEPT !.status = "running"]
      [] message.message_type = "Progress" ->
             [worker EXCEPT !.last_message = message.message,
                            !.bytes_transferred =
                                IF IsSome(message.bytes) THEN message.bytes ELSE @]
      [] OTHER ->
             [worker EXCEPT !.status = UnwrapOr(message.status, "completed"),
                            !.bytes_transferred =
                                IF IsSome(message.bytes) THEN message.bytes ELSE @]

\* an update that does not start from the record the registry holds
UpdateRegistry_loses_earlier(reg, message) ==
    Put(reg, WorkerId(message), ApplyMessage(NewWorkerState(message), message))

\* the block under workers.write(): entry(id).or_insert_with(..), then the match
UpdateRegistry(reg, message) ==
    LET id == WorkerId(message)
        worker == IF id \in DOMAIN reg THEN reg[id] ELSE NewWorkerState(message)
    IN  Put(reg, id, ApplyMessage(worker, message))

\* listener.accept() returns a stream; a handler task is spawned for it
Accept(c) ==
    /\ conn[c].pc = "idle"
    /\ conn' = [conn EXCEPT ![c].pc = "read"]
    /\ UNCHANGED <<mgr_vars, workers, nread, pairs, bus_vars, bursts, input, daemon>>

\* a handler that goes to its send with the registry not yet updated
HandlerLine_publishes_first(c, line) ==
    /\ conn[c].pc = "read"
    /\ nread' = [nread EXCEPT ![c] = @ + 1]
    /\ LET trimmed == Trim(line)
           parsed == parse_worker_message(trimmed)
       IN  IF trimmed = "" \/ parsed.res = "Err"
           THEN UNCHANGED <<workers, conn, pairs>>
           ELSE IF parsed.res = "Panic"
           THEN /\ conn' = [conn EXCEPT ![c].pc = "panicked"]
                /\ UNCHANGED <<workers, pairs>>
           ELSE /\ workers' = workers
                /\ pairs' = pairs \cup {<<parsed.message.tool, parsed.message.directory>>}
                /\ conn' = [conn EXCEPT ![c].pc = "send", ![c].message = Some(parsed.message)]
    /\ UNCHANGED <<mgr_vars, bus_vars, bursts, input, daemon>>

\* read_line returns Ok(n), n > 0: trim, skip if empty, decode, update the registry
HandlerLine(c, line) ==
    /\ conn[c].pc = "read"
    /\ nread' = [nread EXCEPT ![c] = @ + 1]
    /\ LET trimmed == Trim(line)
           parsed == parse_worker_message(trimmed)
       IN  IF trimmed = "" \/ parsed.res = "Err"
           THEN UNCHANGED <<workers, conn, pairs>>
           ELSE IF parsed.res = "Panic"
           THEN /\ conn' = [conn EXCEPT ![c].pc = "panicked"]
                /\ UNCHANGED <<workers, pairs>>
           ELSE /\ workers' = UpdateRegistry(workers, parsed.message)
                /\ pairs' = pairs \cup {<<parsed.message.tool, parsed.message.directory>>}
                /\ conn' = [conn EXCEPT ![c].pc = "send", ![c].message = Some(parsed.message)]
    /\ UNCHANGED <<mgr_vars, bus_vars, bursts, input, daemon>>

\* worker_id = Some(id); let _ = message_tx.send(message); back to read_line
HandlerSend(c) ==
    /\ conn[c].pc = "send"
    /\ conn' = [conn EXCEPT ![c].pc = "read", ![c].message = None,
                            ![c].worker_id = Some(WorkerId(conn[c].message[1]))]
    /\ Send(conn[c].message[1], 1)
    /\ UNCHANGED <<mgr_vars, workers, nread, pairs, bursts, input, daemon>>

\* an end-of-stream arm that drops the record of the last identity
HandlerEof_removes_record(c) ==
    /\ conn[c].pc = "read"
    /\ workers' = IF IsSome(conn[c].worker_id)
                  THEN [k \in DOMAIN workers \ {conn[c].worker_id[1]} |-> workers[k]]
                  ELSE workers
    /\ conn' = [conn EXCEPT ![c].pc = "closed"]
    /\ UNCHANGED <<mgr_vars, nread, pairs, bus_vars, bursts, input, daemon>>

\* an end-of-stream arm that marks every record disconnected
HandlerEof_clears_all(c) ==
    /\ conn[c].pc = "read"
    /\ workers' = IF IsSome(conn[c].worker_id)
                  THEN [k \in DOMAIN workers |-> [workers[k] EXCEPT !.connected = FALSE]]
                  ELSE workers
    /\ conn' = [conn EXCEPT ![c].pc = "closed"]
    /\ UNCHANGED <<mgr_vars, nread, pairs, bus_vars, bursts, input, daemon>>

\* read_line returns Ok(0): mark the last identity disconnected, break
HandlerEof(c) ==
    /\ conn[c].pc = "read"
    /\ workers' = IF IsSome(conn[c].worker_id) /\ conn[c].worker_id[1] \in DOMAIN workers
                  THEN [workers EXCEPT ![conn[c].worker_id[1]].connected = FALSE]
                  ELSE workers
    /\ conn' = [conn EXCEPT ![c].pc = "closed"]
    /\ UNCHANGED <<mgr_vars, nread, pairs, bus_vars, bursts, input, daemon>>

\* read_line returns Err(e): log, break
HandlerReadErr(c) ==
    /\ conn[c].pc = "read"
    /\ conn' = [conn EXCEPT ![c].pc = "failed"]
    /\ UNCHANGED <<mgr_vars, workers, nread, pairs, bus_vars, bursts, input, daemon>>

\* n copies of one decodable line read back to back by one handler, each decoded,
\* applied to the registry and sent before the next is read
HandlerBurst(c, line, n) ==
    /\ conn[c].pc = "read"
    /\ parse_worker_message(Trim(line)).res = "Ok"
    /\ bursts' = bursts + 1
    /\ LET message == parse_worker_message(Trim(line)).message
       IN  /\ workers' = UpdateRegistry(workers, message)
           /\ pairs' = pairs \cup {<<message.tool, message.directory>>}
           /\ conn' = [conn EXCEPT ![c].worker_id = Some(WorkerId(message))]
           /\ Send(message, n)
    /\ UNCHANGED <<mgr_vars, nread, input, daemon>>

----------------------------------------------------------------------------
(* worker.rs: the WorkerManager *)

\* the source root of the run and what read_dir finds in it
SourcePath == "/src"

DestPath == "/dst"

SourceEntries ==
    { [name |-> "a", is_dir |-> TRUE], [name |-> "b", is_dir |-> TRUE],
      [name |-> ".cache", is_dir |-> TRUE], [name |-> "notes", is_dir |-> FALSE] }

\* Path::join
PathJoin(base, name) ==
    IF StartsWith(name, "/") \/ base = "" THEN name
    ELSE IF Char(base, Len(base)) = "/" THEN base \o name
    ELSE base \o "/" \o name

RECURSIVE LastSlash(_, _)
LastSlash(s, i) == IF i = 0 \/ Char(s, i) = "/" THEN i ELSE LastSlash(s, i - 1)

\* Path::file_name of a path with a final normal component
FileName(path) ==
    LET p == IF Len(path) > 1 /\ Char(path, Len(path)) = "/"
             THEN SubSeq(path, 1, Len(path) - 1) ELSE path
    IN  SubSeq(p, LastSlash(p, Len(p)) + 1, Len(p))

\* the entries discover_directories keeps: directories whose name does not start with '.'
Discovered(source_path) ==
    { PathJoin(source_path, e.name) : e \in { x \in SourceEntries : x.is_dir /\ ~StartsWith(x.name, ".") } }

\* read_dir yields the entries in no particular order
Orders(S) == { q \in [1..Cardinality(S) -> S] : \A i, j \in 1..Cardinality(S) : q[i] = q[j] => i = j }

WorkerInfo(tool, directory, status, pid) ==
    [tool |-> tool, directory |-> directory, status |-> status, pid |-> pid]

\* Command::new(program).arg(..).spawn() and, on success, the insert into self.workers
\* and the task that waits for the child
SpawnWorker(table, tool, directory, args, ok) ==
    /\ spawns' = Append(spawns, [tool |-> tool, directory |-> directory, ok |-> ok])
    /\ IF ok
       THEN /\ children' = Append(children, [tool |-> tool, args |-> args, exit |-> "running"])
            /\ mgr_workers' = Put(table, tool \o ":" \o directory,
                                  WorkerInfo(tool, directory, "Running", Some(Len(children) + 1)))
       ELSE /\ children' = children
            /\ mgr_workers' = table

\* fn start_scan_worker
start_scan_worker(directory, ok) ==
    SpawnWorker(mgr_workers, "scan", directory, <<directory>>, ok)

\* fn start_migrate_worker, called with self.workers as left by the caller
start_migrate_worker(table, directory, ok) ==
    SpawnWorker(table, "migrate", directory,
                <<directory, PathJoin(config[1].dest_path, FileName(directory))>>, ok)

\* worker_manager.set_config(config)
SetConfig ==
    /\ mgr_pc = "new"
    /\ config = None
    /\ config' = Some([source_path |-> SourcePath, dest_path |-> DestPath])
    /\ UNCHANGED <<mgr_pc, directories, mgr_workers, children, spawns, seen_ok,
                   sock_vars, bus_vars, bursts, input, daemon>>

\* fn start_migration up to the scan loop: the config check and discover_directories
StartMigration ==
    /\ mgr_pc = "new"
    /\ \/ /\ config = None
          /\ mgr_pc' = "stopped"
          /\ DropReceiver
          /\ UNCHANGED directories
       \/ /\ config # None
          /\ \/ /\ mgr_pc' = "stopped"
                /\ DropReceiver
                /\ UNCHANGED directories
             \/ \E dirs \in Orders(Discovered(config[1].source_path)) :
                    /\ directories' = dirs
                    /\ mgr_pc' = IF dirs = <<>> THEN "listening" ELSE "scanning"
                    /\ UNCHANGED bus_vars
    /\ UNCHANGED <<config, mgr_workers, children, spawns, seen_ok, sock_vars, bursts, input, daemon>>

\* one iteration of `for dir in &directories`
ScanNext ==
    /\ mgr_pc = "scanning"
    /\ \E ok \in BOOLEAN : start_scan_worker(Head(directories), ok)
    /\ directories' = Tail(directories)
    /\ mgr_pc' = IF Tail(directories) = <<>> THEN "listening" ELSE "scanning"
    /\ UNCHANGED <<config, seen_ok, sock_vars, bus_vars, bursts, input, daemon>>

\* the manager matched an ok scan Stop against its table
MatchedOkScan(message) ==
    /\ message.message_type = "Stop"
    /\ message.tool = "scan"
    /\ message.status = Some("ok")
    /\ WorkerId(message) \in DOMAIN mgr_workers

\* handle_worker_message without the status test before the next phase
handle_worker_message_any_status(message) ==
    IF message.message_type = "Stop" /\ WorkerId(message) \in DOMAIN mgr_workers
    THEN LET worker_id == WorkerId(message)
             status == IF message.status = Some("ok") THEN "Completed" ELSE "Failed"
             marked == [mgr_workers EXCEPT ![worker_id].status = status]
         IN  IF message.tool = "scan" /\ IsSome(message.directory)
             THEN \E ok \in BOOLEAN : start_migrate_worker(marked, message.directory[1], ok)
             ELSE /\ mgr_workers' = marked
                  /\ UNCHANGED <<children, spawns>>
    ELSE UNCHANGED <<mgr_workers, children, spawns>>

\* handle_worker_message without the tool test before the next phase
handle_worker_message_any_tool(message) ==
    IF message.message_type = "Stop" /\ WorkerId(message) \in DOMAIN mgr_workers
    THEN LET worker_id == WorkerId(message)
             status == IF message.status = Some("ok") THEN "Completed" ELSE "Failed"
             marked == [mgr_workers EXCEPT ![worker_id].status = status]
         IN  IF status = "Completed" /\ IsSome(message.directory)
             THEN \E ok \in BOOLEAN : start_migrate_worker(marked, message.directory[1], ok)
             ELSE /\ mgr_workers' = marked
                  /\ UNCHANGED <<children, spawns>>
    ELSE UNCHANGED <<mgr_workers, children, spawns>>

\* handle_worker_message acting on an ok scan Stop whether or not its table has the entry
handle_worker_message_unmanaged_launches(message) ==
    IF message.message_type = "Stop"
    THEN LET worker_id == WorkerId(message)
             status == IF message.status = Some("ok") THEN "Completed" ELSE "Failed"
             marked == IF worker_id \in DOMAIN mgr_workers
                       THEN [mgr_workers EXCEPT ![worker_id].status = status]
                       ELSE mgr_workers
         IN  IF message.tool = "scan" /\ status = "Completed" /\ IsSome(message.directory)
             THEN \E ok \in BOOLEAN : start_migrate_worker(marked, message.directory[1], ok)
             ELSE /\ mgr_workers' = marked
                  /\ UNCHANGED <<children, spawns>>
    ELSE UNCHANGED <<mgr_workers, children, spawns>>

\* fn handle_worker_message
handle_worker_message(message) ==
    IF message.message_type = "Stop" /\ WorkerId(message) \in DOMAIN mgr_workers
    THEN LET worker_id == WorkerId(message)
             status == IF message.status = Some("ok") THEN "Completed" ELSE "Failed"
             marked == [mgr_workers EXCEPT ![worker_id].status = status]
         IN  IF message.tool = "scan" /\ status = "Completed" /\ IsSome(message.directory)
             THEN \E ok \in BOOLEAN : start_migrate_worker(marked, message.directory[1], ok)
             ELSE /\ mgr_workers' = marked
                  /\ UNCHANGED <<children, spawns>>
    ELSE UNCHANGED <<mgr_workers, children, spawns>>

\* one turn of `while let Ok(message) = message_rx.recv().await`: a lagged receiver
\* gets Err(Lagged), which ends the loop and the function
Recv ==
    /\ mgr_pc = "listening"
    /\ IF rx_lag > 0
       THEN /\ mgr_pc' = "stopped"
            /\ DropReceiver
            /\ UNCHANGED <<mgr_workers, children, spawns, seen_ok>>
       ELSE /\ bus_queue # <<>>
            /\ bus_queue' = QDrop(bus_queue, 1)
            /\ handle_worker_message(bus_queue[1].m)
            /\ seen_ok' = IF MatchedOkScan(bus_queue[1].m) /\ IsSome(bus_queue[1].m.directory)
                          THEN seen_ok \cup {bus_queue[1].m.directory[1]} ELSE seen_ok
            /\ UNCHANGED <<mgr_pc, rx_lag, rx_alive, bus_stops, lost_stops>>
    /\ UNCHANGED <<config, directories, sock_vars, bursts, input, daemon>>

\* a wait task that records the exit status in the manager's table
ChildExit_marks_worker(p, success) ==
    /\ p \in DOMAIN children
    /\ children[p].exit = "running"
    /\ children' = [children EXCEPT ![p].exit = "exited"]
    /\ mgr_workers' = [k \in DOMAIN mgr_workers |->
                          IF mgr_workers[k].pid = Some(p)
                          THEN [mgr_workers[k] EXCEPT !.status = IF success THEN "Completed" ELSE "Failed"]
                          ELSE mgr_workers[k]]
    /\ UNCHANGED <<config, mgr_pc, directories, spawns, seen_ok,
                   sock_vars, bus_vars, bursts, input, daemon>>

\* child.wait_with_output() completes in the spawned task: the outcome, success or
\* not, is logged and the task ends
ChildExit(p, success) ==
    /\ p \in DOMAIN children
    /\ children[p].exit = "running"
    /\ children' = [children EXCEPT ![p].exit = "exited"]
    /\ UNCHANGED <<config, mgr_pc, directories, mgr_workers, spawns, seen_ok,
                   sock_vars, bus_vars, bursts, input, daemon>>

----------------------------------------------------------------------------
(* daemon.rs: start_migration_daemon *)

\* a select! without the worker_handle branch
DaemonSelect_only_ctrl_c(ctrl_c) ==
    /\ daemon = "running"
    /\ ctrl_c
    /\ daemon' = "stopped"
    /\ UNCHANGED <<mgr_vars, sock_vars, bus_vars, bursts, input>>

\* the select! completes, on ctrl_c or because the manager's task has ended (the
\* socket server's task never ends); then the socket file is removed and the
\* function returns. The tasks it spawned are detached and go on.
DaemonSelect(ctrl_c) ==
    /\ daemon = "running"
    /\ ctrl_c \/ mgr_pc = "stopped"
    /\ daemon' = "stopped"
    /\ UNCHANGED <<mgr_vars, sock_vars, bus_vars, bursts, input>>

----------------------------------------------------------------------------
(* The system *)

\* the lines a worker may write
Lines ==
    { "HELLO freight/0.1.0 host=h1 pid=7\n",
      "START tool=scan dir=/src/a\n",
      "STOP tool=scan dir=/src/a status=ok bytes=1000\n",
      "STOP tool=scan dir=/src/a status=error\n",
      "STOP tool=migrate dir=/src/a status=ok\n",
      "PROGRESS tool=scan dir=/src/b msg=working bytes=5\n",
      "STOP tool=scan dir=/src/b\n" }

BurstLines == { "PROGRESS tool=scan dir=/src/b msg=working bytes=5\n" }

InitState(lines) ==
    /\ config = None
    /\ mgr_pc = "new"
    /\ directories = <<>>
    /\ mgr_workers = <<>>
    /\ children = <<>>
    /\ spawns = <<>>
    /\ seen_ok = {}
    /\ workers = <<>>
    /\ conn = [c \in Conns |-> [pc |-> "idle", worker_id |-> None, message |-> None]]
    /\ nread = [c \in Conns |-> 0]
    /\ pairs = {}
    /\ bus_queue = <<>>
    /\ rx_lag = 0
    /\ rx_alive = TRUE
    /\ bus_stops = {}
    /\ lost_stops = {}
    /\ bursts = 0
    /\ input = lines
    /\ daemon = "running"

\* the state after SocketServer::new and WorkerManager::new, no peer's lines fixed
Init == InitState([c \in Conns |-> <<>>])

RECURSIVE SumTo(_, _)
SumTo(f, n) == IF n = 0 THEN 0 ELSE f[n] + SumTo(f, n - 1)

LinesRead == SumTo(nread, NumConns)

Next ==
    \/ DaemonSelect(FALSE)
    \/ SetConfig
    \/ StartMigration
    \/ ScanNext
    \/ Recv
    \/ \E p \in DOMAIN children : \E success \in BOOLEAN : ChildExit(p, success)
    \/ \E c \in Conns : Accept(c)
    \/ \E c \in Conns : \E line \in Lines : LinesRead < MaxLines /\ HandlerLine(c, line)
    \/ \E c \in Conns : HandlerSend(c)
    \/ \E c \in Conns : HandlerEof(c)
    \/ \E c \in Conns : HandlerReadErr(c)

Spec == Init /\ [][Next]_vars

\* `run` turns of the recv loop in a row, on a run of identical messages that
\* handle_worker_message ignores
RecvRun ==
    /\ mgr_pc = "listening"
    /\ rx_lag = 0
    /\ bus_queue # <<>>
    /\ bus_queue[1].n > MaxLines
    /\ bus_queue[1].m.message_type # "Stop"
    /\ bus_queue' = Tail(bus_queue)
    /\ UNCHANGED <<mgr_vars, sock_vars, rx_lag, rx_alive, bus_stops, lost_stops, bursts, input, daemon>>

\* the lines written in the runs with bursts
BusLines ==
    { "STOP tool=scan dir=/src/a status=ok bytes=1000\n",
      "PROGRESS tool=scan dir=/src/b msg=working bytes=5\n" }

\* the same system, where a worker may also write a burst of BusCapacity lines that
\* its handler reads back to back, and the manager reads a burst in one go
NextBus ==
    \/ DaemonSelect(FALSE)
    \/ SetConfig
    \/ StartMigration
    \/ ScanNext
    \/ (rx_lag > 0 \/ (bus_queue # <<>> /\ bus_queue[1].n <= MaxLines)) /\ Recv
    \/ RecvRun
    \/ \E p \in DOMAIN children : \E success \in BOOLEAN : ChildExit(p, success)
    \/ \E c \in Conns : Accept(c)
    \/ \E c \in Conns : \E line \in BusLines : LinesRead < MaxLines /\ HandlerLine(c, line)
    \/ \E c \in Conns : \E line \in BurstLines :
           bursts < MaxBursts /\ HandlerBurst(c, line, BusCapacity)
    \/ \E c \in Conns : HandlerSend(c)
    \/ \E c \in Conns : HandlerEof(c)
    \/ \E c \in Conns : HandlerReadErr(c)

SpecBus == Init /\ [][NextBus]_vars

\* the end-to-end run: the worker of a writes to connection 1, the worker of b to
\* connection 2
Script(c) ==
    IF c = 1 THEN << "START tool=scan dir=a\n", "STOP tool=scan dir=a status=ok bytes=1000\n" >>
    ELSE IF c = 2 THEN << "STOP tool=scan dir=b status=error\n" >>
    ELSE << >>

NextE2E ==
    \/ DaemonSelect(FALSE)
    \/ SetConfig
    \/ StartMigration
    \/ ScanNext
    \/ Recv
    \/ \E p \in DOMAIN children : \E success \in BOOLEAN : ChildExit(p, success)
    \/ \E c \in Conns : Accept(c)
    \/ \E c \in Conns : nread[c] < Len(Script(c)) /\ HandlerLine(c, Script(c)[nread[c] + 1])
    \/ \E c \in Conns : HandlerSend(c)
    \/ \E c \in Conns : HandlerEof(c)
    \/ \E c \in Conns : HandlerReadErr(c)

SpecE2E == Init /\ [][NextE2E]_vars

\* the lines written in the runs that exercise the registry
RegLines ==
    { "HELLO freight/0.1.0 host=h1 pid=7\n",
      "START tool=scan\n",
      "START tool=scan dir=unknown\n",
      "PROGRESS tool=scan dir=/src/a msg=working bytes=5\n",
      "STOP tool=scan dir=/src/a status=ok\n" }

NextReg ==
    \/ DaemonSelect(FALSE)
    \/ SetConfig
    \/ StartMigration
    \/ ScanNext
    \/ Recv
    \/ \E p \in DOMAIN children : \E success \in BOOLEAN : ChildExit(p, success)
    \/ \E c \in Conns : Accept(c)
    \/ \E c \in Conns : \E line \in RegLines : LinesRead < MaxLines /\ HandlerLine(c, line)
    \/ \E c \in Conns : HandlerSend(c)
    \/ \E c \in Conns : HandlerEof(c)
    \/ \E c \in Conns : HandlerReadErr(c)

SpecReg == Init /\ [][NextReg]_vars

\* the lines written in the runs of the socket server alone
SockLines ==
    { "HELLO freight/0.1.0 host=h1 pid=7\n",
      "STOP bytes=9\n",
      "START tool=scan dir=/src/a\n",
      "PROGRESS tool=scan dir=/src/a msg=working bytes=5\n",
      "PROGRESS tool=scan dir=/src/a msg=idle\n",
      "STOP tool=scan dir=/src/a status=ok\n",
      "STOP tool=scan dir=/src/a status=error bytes=1000\n" }

\* the socket server and its handlers, whatever the manager does with the bus
NextSock ==
    \/ \E c \in Conns : Accept(c)
    \/ \E c \in Conns : \E line \in SockLines : LinesRead < MaxLines /\ HandlerLine(c, line)
    \/ \E c \in Conns : HandlerSend(c)
    \/ \E c \in Conns : HandlerEof(c)
    \/ \E c \in Conns : HandlerReadErr(c)

SpecSock == Init /\ [][NextSock]_vars

\* lines whose tool and directory differ pairwise
IdLines ==
    { "START tool=scan\n",
      "START tool=scan dir=unknown\n",
      "START tool=a:b dir=c\n",
      "START tool=a dir=b:c\n" }

\* the socket server and its handlers reading those lines
NextIds ==
    \/ \E c \in Conns : Accept(c)
    \/ \E c \in Conns : \E line \in IdLines : LinesRead < MaxLines /\ HandlerLine(c, line)
    \/ \E c \in Conns : HandlerSend(c)
    \/ \E c \in Conns : HandlerEof(c)
    \/ \E c \in Conns : HandlerReadErr(c)

SpecIds == Init /\ [][NextIds]_vars

\* the lines a peer may write in the runs that fix each connection's lines
ScriptLines ==
    { "\n",
      "BOGUS tool=scan dir=/src/a\n",
      "stop tool=scan dir=/src/a status=ok\n",
      "HELLO\n",
      "START\n",
      "STOP tool=scan dir=/src/a status=ok\n" }

RECURSIVE SeqsUpTo(_, _)
\* the sequences over S of length at most n
SeqsUpTo(S, n) ==
    IF n = 0 THEN { <<>> }
    ELSE SeqsUpTo(S, n - 1) \cup { Append(q, x) : q \in { r \in SeqsUpTo(S, n - 1) : Len(r) = n - 1 }, x \in S }

\* each connection's peer writes some lines of ScriptLines, then may close
InitLines == \E lines \in [Conns -> SeqsUpTo(ScriptLines, MaxInput)] : InitState(lines)

\* the socket server and its handlers reading the lines of input in order
NextLines ==
    \/ \E c \in Conns : Accept(c)
    \/ \E c \in Conns : nread[c] < Len(input[c]) /\ HandlerLine(c, input[c][nread[c] + 1])
    \/ \E c \in Conns : HandlerSend(c)
    \/ \E c \in Conns : nread[c] = Len(input[c]) /\ HandlerEof(c)
    \/ \E c \in Conns : HandlerReadErr(c)

SpecLines == InitLines /\ [][NextLines]_vars

\* the lines a peer may write in the runs that exercise the decoder
DecodeLines ==
    { "HELLO host=h1 pid=7\n",
      "HELLO freight/0.1.0 host=h1 pid=x7\n",
      "START dir=/src/a color=red tool=scan\n",
      "PROGRESS bytes=5 msg=working dir=/src/a tool=scan\n",
      "PROGRESS tool=scan dir=/src/a msg=idle bytes=-1\n",
      "STOP tool=scan dir=/src/a status=ok bytes=abc\n",
      "STOP msg=done bytes=1000 status=ok dir=/src/a tool=scan\n" }

\* the peer of connection 1 writes some lines of DecodeLines, the others none
InitDecode ==
    \E q \in SeqsUpTo(DecodeLines, MaxInput) :
        InitState([c \in Conns |-> IF c = 1 THEN q ELSE <<>>])

SpecDecode == InitDecode /\ [][NextLines]_vars

\* the lines the peers write in the runs where handlers race on the registry
RaceLines ==
    { "START tool=scan dir=/src/a\n",
      "PROGRESS tool=scan dir=/src/a msg=working bytes=5\n",
      "STOP tool=scan dir=/src/a status=ok\n",
      "PROGRESS tool=scan dir=/src/b msg=idle\n" }

InitRace == \E lines \in [Conns -> SeqsUpTo(RaceLines, MaxInput)] : InitState(lines)

SpecRace == InitRace /\ [][NextLines]_vars

\* the whole daemon, where the user may also press ctrl-c; a task that is ready
\* is eventually polled, so the select! does not wait forever on a finished
\* worker_handle
NextRun ==
    \/ \E ctrl_c \in BOOLEAN : DaemonSelect(ctrl_c)
    \/ SetConfig
    \/ StartMigration
    \/ ScanNext
    \/ Recv
    \/ \E p \in DOMAIN children : \E success \in BOOLEAN : ChildExit(p, success)
    \/ \E c \in Conns : Accept(c)
    \/ \E c \in Conns : \E line \in BusLines : LinesRead < MaxLines /\ HandlerLine(c, line)
    \/ \E c \in Conns : HandlerSend(c)
    \/ \E c \in Conns : HandlerEof(c)
    \/ \E c \in Conns : HandlerReadErr(c)

SpecRun == Init /\ [][NextRun]_vars /\ WF_vars(DaemonSelect(FALSE))

\* the lines of workers that announce themselves before they start
HelloLines ==
    { "HELLO freight/0.1.0 host=h1 pid=7\n",
      "HELLO freight/0.1.0 tool=scan dir=/src/a host=h2 pid=8\n",
      "START tool=scan dir=/src/a\n",
      "STOP tool=scan dir=/src/a status=ok\n" }

NextHello ==
    \/ \E c \in Conns : Accept(c)
    \/ \E c \in Conns : \E line \in HelloLines : LinesRead < MaxLines /\ HandlerLine(c, line)
    \/ \E c \in Conns : HandlerSend(c)
    \/ \E c \in Conns : HandlerEof(c)
    \/ \E c \in Conns : HandlerReadErr(c)

SpecHello == Init /\ [][NextHello]_vars

\* the Stops of scan workers: of a discovered directory, of a directory that was
\* never discovered, and with no dir= at all
StopLines ==
    { "STOP tool=scan dir=/src/a status=ok\n",
      "STOP tool=scan dir=/src/zz status=ok\n",
      "STOP tool=scan status=ok\n" }

NextStop ==
    \/ DaemonSelect(FALSE)
    \/ SetConfig
    \/ StartMigration
    \/ ScanNext
    \/ Recv
    \/ \E p \in DOMAIN children : \E success \in BOOLEAN : ChildExit(p, success)
    \/ \E c \in Conns : Accept(c)
    \/ \E c \in Conns : \E line \in StopLines : LinesRead < MaxLines /\ HandlerLine(c, line)
    \/ \E c \in Conns : HandlerSend(c)
    \/ \E c \in Conns : HandlerEof(c)
    \/ \E c \in Conns : HandlerReadErr(c)

SpecStop == Init /\ [][NextStop]_vars

\* the listener accepts a further stream once an earlier handler has returned
NewStream(c) ==
    /\ conn[c].pc \in {"closed", "failed"}
    /\ conn' = [conn EXCEPT ![c] = [pc |-> "idle", worker_id |-> None, message |-> None]]
    /\ UNCHANGED <<mgr_vars, workers, nread, pairs, bus_vars, bursts, input, daemon>>

\* the identity of the job child p was launched for
ChildId(p) == children[p].tool \o ":" \o children[p].args[1]

\* the worker process p, launched with its directory as first argument, writes the
\* Stop of its job on its own stream, once
WorkerStop(c, p, status) ==
    /\ p \in DOMAIN children
    /\ conn[c].worker_id = None
    /\ IF ChildId(p) \in DOMAIN workers
       THEN workers[ChildId(p)].status \notin {"ok", "error"} ELSE TRUE
    /\ HandlerLine(c, "STOP tool=" \o children[p].tool \o " dir=" \o children[p].args[1]
                          \o " status=" \o status \o "\n")

\* at most two jobs per discovered directory
MaxChildren == 2 * Cardinality(Discovered(SourcePath))

\* the stream on which worker process p reports
StreamOf(p) == ((p - 1) % NumConns) + 1

\* every Command::spawn of the step returned Ok
LaunchesSucceed == \A sp \in { spawns'[i] : i \in (Len(spawns) + 1)..Len(spawns') } : sp.ok

\* the manager's recv, a burst it ignores being read in one go (RecvRun)
RecvOne == (rx_lag > 0 \/ (bus_queue # <<>> /\ bus_queue[1].n <= MaxLines)) /\ Recv /\ LaunchesSucceed

\* the handler's read_line returns Ok(0) or Err once the worker has reported
StreamEnds(c) == conn[c].worker_id # None /\ (HandlerEof(c) \/ HandlerReadErr(c))

\* a worker writes a burst of progress lines before anything else
WorkerBurst(c) ==
    /\ bursts < MaxBursts
    /\ conn[c].worker_id = None
    /\ children # <<>>
    /\ \E line \in BurstLines : HandlerBurst(c, line, BusCapacity)

\* the steps of the manager's task
ManagerStep == SetConfig \/ StartMigration \/ (ScanNext /\ LaunchesSucceed) \/ RecvOne \/ RecvRun

\* the steps of the listener and of the handler tasks that do not wait for a line
HandlerStep == \E c \in Conns : Accept(c) \/ NewStream(c) \/ HandlerSend(c) \/ StreamEnds(c)

\* a launched worker reports the end of its job
WorkerStep == \E p \in 1..MaxChildren : \E status \in {"ok", "error"} : WorkerStop(StreamOf(p), p, status)

\* the daemon with its workers, every launch succeeding: each launched worker
\* connects and reports its Stop, a worker may write a burst of progress lines
\* first, and streams end after use
NextLive ==
    \/ DaemonSelect(FALSE)
    \/ ManagerStep
    \/ HandlerStep
    \/ WorkerStep
    \/ \E c \in Conns : WorkerBurst(c)

\* the states in which WorkerStep can be taken: some launched worker has not
\* reported and its stream is open and unused (HandlerLine then always advances
\* nread, so the step changes the state)
WorkerCanReport ==
    \E p \in DOMAIN children :
        /\ conn[StreamOf(p)].pc = "read"
        /\ conn[StreamOf(p)].worker_id = None
        /\ IF ChildId(p) \in DOMAIN workers
           THEN workers[ChildId(p)].status \notin {"ok", "error"} ELSE TRUE

\* every task that is ready is eventually polled (WF of the manager's, the daemon's
\* and the handlers' steps), and a launched worker that can report eventually
\* does: weak fairness of WorkerStep, written out with WorkerCanReport as its
\* enabling condition
FairLive ==
    /\ WF_vars(DaemonSelect(FALSE))
    /\ WF_vars(ManagerStep)
    /\ WF_vars(HandlerStep)
    /\ ([]<>(~WorkerCanReport) \/ []<><<WorkerStep>>_vars)

SpecLive == Init /\ [][NextLive]_vars /\ FairLive

----------------------------------------------------------------------------
(* Properties *)

\* the step is the manager's recv of one message
RecvStep ==
    /\ mgr_pc = "listening"
    /\ rx_lag = 0
    /\ bus_queue # <<>>
    /\ bus_queue' = QDrop(bus_queue, 1)

\* the Command::spawn calls made in this step
NewSpawns == { spawns'[i] : i \in (Len(spawns) + 1)..Len(spawns') }

\* the migrate launches attempted so far for directory d
MigrateSpawns(d) == { i \in 1..Len(spawns) : spawns[i].tool = "migrate" /\ spawns[i].directory = d }

ManagedDirs == Discovered(SourcePath)

\* C1: a migrate worker is launched for directory D only in a step in which the
\* manager takes from the bus a Stop with tool "scan", directory D and status "ok"
\* while "scan:D" is in its table; no other step launches a migrate worker.
C1_MigrateOnlyOnOkScanStop ==
    [][\A sp \in NewSpawns :
           sp.tool = "migrate" =>
               /\ RecvStep
               /\ MatchedOkScan(bus_queue[1].m)
               /\ bus_queue[1].m.directory = Some(sp.directory)]_vars

C1_Witness == \E i \in 1..Len(spawns) : spawns[i].tool = "migrate" /\ spawns[i].ok

\* C2: over the whole run an ok scan Stop for a managed directory D causes exactly
\* one migrate launch for D, repeated Stop messages included, and without an ok
\* scan Stop there is none.
C2_ExactlyOneLaunch ==
    \A d \in ManagedDirs :
        IF d \in seen_ok
        THEN MigrateSpawns(d) # {} /\ Cardinality({ i \in MigrateSpawns(d) : spawns[i].ok }) <= 1
        ELSE MigrateSpawns(d) = {}

\* C3: a managed worker that a Stop has set to Failed or Completed keeps that
\* state, and once a directory's scan is Failed no migrate worker is launched for it.
C3_TerminalAbsorbing ==
    [][/\ \A k \in DOMAIN mgr_workers :
              mgr_workers[k].status \in {"Failed", "Completed"}
                  => mgr_workers'[k].status = mgr_workers[k].status
       /\ \A d \in ManagedDirs :
              ("scan:" \o d) \in DOMAIN mgr_workers /\ mgr_workers["scan:" \o d].status = "Failed"
                  => ~\E sp \in NewSpawns : sp.tool = "migrate" /\ sp.directory = d]_vars

\* C6: taking a message that is not a Stop, or a Stop whose id is not in the
\* manager's table, changes neither the table nor the launches; taking a Stop
\* with tool "migrate" only sets that worker Completed (status "ok") or Failed and
\* launches nothing.
C6_OnlyMatchingStopActs ==
    [][RecvStep =>
           LET m == bus_queue[1].m IN
           /\ (m.message_type # "Stop" \/ WorkerId(m) \notin DOMAIN mgr_workers)
                  => UNCHANGED <<mgr_workers, spawns, children>>
           /\ (m.message_type = "Stop" /\ m.tool = "migrate" /\ WorkerId(m) \in DOMAIN mgr_workers)
                  => /\ UNCHANGED <<spawns, children>>
                     /\ mgr_workers' = [mgr_workers EXCEPT ![WorkerId(m)].status =
                                            IF m.status = Some("ok") THEN "Completed" ELSE "Failed"]]_vars

C6_Witness ==
    /\ "migrate:/src/a" \in DOMAIN mgr_workers
    /\ mgr_workers["migrate:/src/a"].status = "Completed"
    /\ \E i \in 1..Len(spawns) : spawns[i].tool = "migrate"
    /\ Cardinality(MigrateSpawns("/src/a")) = 1

\* a Stop for worker id k has been accepted by the bus
StopSent(k) == \E m \in bus_stops : WorkerId(m) = k

\* C7: the exit of a supervised process changes no managed worker's state and
\* launches nothing; a scan process that has exited while no Stop for its id was
\* ever sent is still Running in the table and has no migrate launch.
C7_ExitIsNotASignal ==
    /\ [](\A p \in DOMAIN children :
              (children[p].tool = "scan" /\ children[p].exit = "exited"
                   /\ ~StopSent("scan:" \o children[p].args[1]))
                  => /\ mgr_workers["scan:" \o children[p].args[1]].status = "Running"
                     /\ MigrateSpawns(children[p].args[1]) = {})
    /\ [][(\E p \in DOMAIN children : children[p].exit = "running" /\ children'[p].exit = "exited")
              => UNCHANGED <<mgr_workers, spawns>>]_vars

C7_Witness ==
    \E p \in DOMAIN children :
        /\ children[p].tool = "scan"
        /\ children[p].exit = "exited"
        /\ ~StopSent("scan:" \o children[p].args[1])
        /\ mgr_workers["scan:" \o children[p].args[1]].status = "Running"
        /\ mgr_pc = "listening"

\* the manager has nothing left to read
Drained == mgr_pc \in {"listening", "stopped"} /\ bus_queue = <<>> /\ rx_lag = 0

AllScansManaged == \A d \in ManagedDirs : ("scan:" \o d) \in DOMAIN mgr_workers

\* C4: with scan workers launched for both directories, in every interleaving an ok
\* scan Stop sent for a directory leads to a migrate launch for that directory,
\* whatever the other directory's worker sends: once the manager has nothing left
\* to read, each directory whose ok scan Stop went onto the bus, and was not
\* overwritten there, has its launch.
C4_EachOkScanGetsMigrate ==
    (Drained /\ AllScansManaged) =>
        \A m \in bus_stops \ lost_stops :
            (m.tool = "scan" /\ m.status = Some("ok") /\ IsSome(m.directory)
                 /\ m.directory[1] \in ManagedDirs)
                => MigrateSpawns(m.directory[1]) # {}

ScanSpawnNames == { FileName(spawns[i].directory) : i \in { j \in 1..Len(spawns) : spawns[j].tool = "scan" } }

MigrateSpawnNames == { FileName(spawns[i].directory) : i \in { j \in 1..Len(spawns) : spawns[j].tool = "migrate" } }

\* both workers' lines have been read, sent and taken by the manager
E2EDone ==
    /\ mgr_pc = "listening"
    /\ AllScansManaged
    /\ bus_queue = <<>>
    /\ \A c \in {1, 2} : nread[c] = Len(Script(c)) /\ conn[c].pc \in {"read", "closed", "failed"}

\* C5: end to end, with a, b and .cache under the source root: scan workers are
\* launched for exactly a and b; after a's worker sent START and STOP status=ok
\* with dir=a and b's worker sent STOP status=error with dir=b, a migrate worker
\* has been launched for a and only for a, and the registry shows b as "error".
C5_EndToEnd ==
    /\ mgr_pc = "listening" => ScanSpawnNames = {"a", "b"}
    /\ E2EDone =>
           /\ MigrateSpawnNames = {"a"}
           /\ "scan:b" \in DOMAIN workers
           /\ workers["scan:b"].status = "error"

\* C8: a handler that has decoded a line can always take its send step, which
\* returns it to reading, whatever the receiver's backlog and with or without a
\* receiver.
C8_SendNeverBlocks ==
    \A c \in Conns : conn[c].pc = "send" => ENABLED (HandlerSend(c) /\ conn'[c].pc = "read")

C8_Witness ==
    \E c \in Conns : conn[c].pc = "send" /\ rx_alive /\ rx_lag > 0 /\ QLen(bus_queue) = BusCapacity

\* C9: the manager keeps consuming after it has fallen more than the buffer's
\* capacity behind: once in its receive loop it stays there.
C9_KeepsConsuming ==
    [][mgr_pc = "listening" => mgr_pc' = "listening"]_vars

\* C10: the registry holds exactly one record per (tool, directory) pair decoded
\* so far: the first message of a pair creates its record, later ones update it.
C10_OneRecordPerPair ==
    Cardinality(DOMAIN workers) = Cardinality(pairs)

\* connection c's handler decodes a line in this step and updates the registry
DecodeStep(c) == conn[c].pc = "read" /\ conn'[c].pc = "send"

\* the record a message is applied to: the one in the registry, or the one
\* inserted for a new identity
RecordBefore(m) ==
    IF WorkerId(m) \in DOMAIN workers THEN workers[WorkerId(m)]
    ELSE [tool |-> m.tool, directory |-> m.directory, status |-> "unknown",
          last_message |-> None, bytes_transferred |-> None, host |-> None, pid |-> None,
          connected |-> TRUE]

RecordFields ==
    {"tool", "directory", "status", "last_message", "bytes_transferred", "host", "pid",
     "connected"}

\* outside the fields in set, record new is record old
SameExcept(old, new, set) == \A f \in RecordFields \ set : new[f] = old[f]

\* C11: a decoded Hello sets host and pid to the message's, connectivity to true
\* and status to "connected"; a Start sets status to "running"; a Stop sets
\* status to the message's status, "completed" when absent, and bytes transferred
\* only when the message carries bytes; every other field of the record, and
\* every other record, is as before.
C11_UpdateByKind ==
    [][\A c \in Conns : DecodeStep(c) =>
           LET m == conn'[c].message[1]
               old == RecordBefore(m)
               new == workers'[WorkerId(m)]
           IN  /\ \A k \in DOMAIN workers \ {WorkerId(m)} :
                      k \in DOMAIN workers' /\ workers'[k] = workers[k]
               /\ m.message_type = "Hello" =>
                      /\ new.host = m.host /\ new.pid = m.pid
                      /\ new.connected = TRUE /\ new.status = "connected"
                      /\ SameExcept(old, new, {"host", "pid", "connected", "status"})
               /\ m.message_type = "Start" =>
                      /\ new.status = "running"
                      /\ SameExcept(old, new, {"status"})
               /\ m.message_type = "Stop" =>
                      /\ new.status = (IF m.status = None THEN "completed" ELSE m.status[1])
                      /\ IF m.bytes = None
                         THEN SameExcept(old, new, {"status"})
                         ELSE /\ new.bytes_transferred = m.bytes
                              /\ SameExcept(old, new, {"status", "bytes_transferred"})]_vars

\* a Stop without status after a Hello: completed, bytes stored, host and pid kept
C11_Witness ==
    /\ "unknown:unknown" \in DOMAIN workers
    /\ workers["unknown:unknown"].status = "completed"
    /\ workers["unknown:unknown"].bytes_transferred = Some(9)
    /\ workers["unknown:unknown"].host = Some("h1")
    /\ workers["unknown:unknown"].pid = Some(7)

\* C12: a decoded Progress sets the record's last message and, only if it carries
\* bytes, the bytes transferred; status, host, pid and connectivity are as
\* before, and without bytes a recorded bytes value stays.
C12_ProgressFrame ==
    [][\A c \in Conns : (DecodeStep(c) /\ conn'[c].message[1].message_type = "Progress") =>
           LET m == conn'[c].message[1]
               old == RecordBefore(m)
               new == workers'[WorkerId(m)]
           IN  /\ new.last_message = m.message
               /\ new.bytes_transferred = (IF m.bytes # None THEN m.bytes ELSE old.bytes_transferred)
               /\ new.status = old.status
               /\ new.host = old.host
               /\ new.pid = old.pid
               /\ new.connected = old.connected]_vars

C12_Witness ==
    /\ "scan:/src/a" \in DOMAIN workers
    /\ workers["scan:/src/a"].last_message = Some("idle")
    /\ workers["scan:/src/a"].bytes_transferred = Some(5)
    /\ workers["scan:/src/a"].status = "unknown"

\* connection c's handler reads end-of-stream in this step
EofStep(c) == conn[c].pc = "read" /\ conn'[c].pc = "closed"

\* C13: at end-of-stream the record of the connection's identity is kept, its
\* connectivity flag becomes false, its other fields and all other records stay as
\* they were, and the manager's table and launches are unchanged.
C13_EofKeepsRecord ==
    [][\A c \in Conns : EofStep(c) =>
           /\ DOMAIN workers' = DOMAIN workers
           /\ conn[c].worker_id # None => conn[c].worker_id[1] \in DOMAIN workers'
           /\ \A k \in DOMAIN workers :
                  workers'[k] = IF conn[c].worker_id = Some(k)
                                THEN [workers[k] EXCEPT !.connected = FALSE]
                                ELSE workers[k]
           /\ UNCHANGED <<mgr_workers, spawns, children, seen_ok>>]_vars

\* the scan worker of /src/a said START and its connection ended, no Stop was ever
\* sent: the record is "running" and disconnected, the manager's entry is Running
C13_Witness ==
    /\ bus_stops = {}
    /\ \E c \in Conns : conn[c].pc = "closed" /\ conn[c].worker_id = Some("scan:/src/a")
    /\ "scan:/src/a" \in DOMAIN workers
    /\ workers["scan:/src/a"].status = "running"
    /\ workers["scan:/src/a"].connected = FALSE
    /\ "scan:/src/a" \in DOMAIN mgr_workers
    /\ mgr_workers["scan:/src/a"].status = "Running"
    /\ MigrateSpawns("/src/a") = {}

\* connection c's handler gets a read error in this step
ReadErrStep(c) == conn[c].pc = "read" /\ conn'[c].pc = "failed"

\* C14: when read_line fails on a connection its handler ends, the record of the
\* connection's identity is marked disconnected, and no other handler and no
\* other record changes.
C14_ReadErrorMarksDisconnected ==
    [][\A c \in Conns : ReadErrStep(c) =>
           /\ conn[c].worker_id # None =>
                  /\ conn[c].worker_id[1] \in DOMAIN workers'
                  /\ workers'[conn[c].worker_id[1]].connected = FALSE
           /\ \A d \in Conns \ {c} : conn'[d] = conn[d]
           /\ \A k \in DOMAIN workers :
                  conn[c].worker_id # Some(k) => (k \in DOMAIN workers' /\ workers'[k] = workers[k])]_vars

Kinds == [HELLO |-> "Hello", START |-> "Start", PROGRESS |-> "Progress", STOP |-> "Stop"]

\* the first whitespace-separated token of the line is one of the four kinds
Decodable(line) ==
    SplitWhitespace(line) # <<>> /\ SplitWhitespace(line)[1] \in DOMAIN Kinds

\* connection c's handler reads line input[c][nread[c] + 1] in this step
LineStep(c) == nread'[c] = nread[c] + 1

\* connection c's handler publishes its decoded message in this step
SendStep(c) == conn[c].pc = "send" /\ conn'[c].pc = "read"

\* C15: reading an undecodable line leaves the handler reading and the registry
\* and the bus as they were; reading a decodable line, wherever it comes in the
\* connection's sequence, updates the registry and is followed by the message's
\* publication; nothing else is published.
C15_BadLinesAreSkipped ==
    [][/\ \A c \in Conns : LineStep(c) =>
              LET line == input[c][nread[c] + 1] IN
              IF Decodable(line)
              THEN /\ conn'[c].pc = "send"
                   /\ conn'[c].message # None
                   /\ conn'[c].message[1].message_type = Kinds[SplitWhitespace(line)[1]]
                   /\ WorkerId(conn'[c].message[1]) \in DOMAIN workers'
                   /\ UNCHANGED <<bus_queue, bus_stops>>
              ELSE /\ conn'[c] = conn[c]
                   /\ UNCHANGED <<workers, bus_queue, bus_stops>>
       /\ \A c \in Conns : SendStep(c) =>
              /\ bus_queue' = QPush(bus_queue, conn[c].message[1], 1)
              /\ UNCHANGED workers
       /\ bus_queue' # bus_queue => \E c \in Conns : SendStep(c)]_vars

\* C20: decoding a line gives a message exactly when its first token is HELLO,
\* START, PROGRESS or STOP, of that kind, whatever follows; for an empty line or
\* another first token it gives an error value; it never crashes. Stated of
\* every line a handler has read.
C20_DecodeByFirstToken ==
    \A c \in Conns : \A i \in 1..nread[c] :
        LET line == Trim(input[c][i])
            r == parse_worker_message(line)
        IN  /\ r.res # "Panic"
            /\ Decodable(line) =>
                   r.res = "Ok" /\ r.message.message_type = Kinds[SplitWhitespace(line)[1]]
            /\ ~Decodable(line) => r.res = "Err"

\* C16: a launch that fails leaves the directory's job recorded as Failed in the
\* manager's table, and the entries of the other directories as they were.
C16_SpawnFailureRecorded ==
    [][\A sp \in NewSpawns : ~sp.ok =>
           /\ (sp.tool \o ":" \o sp.directory) \in DOMAIN mgr_workers'
           /\ mgr_workers'[sp.tool \o ":" \o sp.directory].status = "Failed"
           /\ \A k \in DOMAIN mgr_workers :
                  mgr_workers[k].directory # sp.directory
                      => (k \in DOMAIN mgr_workers' /\ mgr_workers'[k] = mgr_workers[k])]_vars

\* C18: two decoded messages whose (tool, directory) pairs differ have different
\* worker ids, the key of the registry and of the manager's table.
C18_IdentityInjective ==
    \A p \in pairs : \A q \in pairs :
        p # q => WorkerId([tool |-> p[1], directory |-> p[2]])
                     # WorkerId([tool |-> q[1], directory |-> q[2]])

\* C19: while a connection is open and its most recent decoded message had
\* identity I, the record of I has its connectivity flag true.
C19_ConnectedWhileOpen ==
    \A c \in Conns :
        (conn[c].pc = "read" /\ conn[c].worker_id # None)
            => /\ conn[c].worker_id[1] \in DOMAIN workers
               /\ workers[conn[c].worker_id[1]].connected

\* C17: when start_migration finds no configuration or cannot enumerate the
\* source root, the manager stops having launched nothing and taken nothing from
\* the bus, it does neither afterwards, and the daemon's run then ends.
C17_DiscoveryFailureIsFatal ==
    /\ [][(mgr_pc = "new" /\ mgr_pc' = "stopped")
              => (spawns' = <<>> /\ children' = <<>> /\ mgr_workers' = <<>> /\ seen_ok' = {})]_vars
    /\ [][mgr_pc = "stopped"
              => (mgr_pc' = "stopped" /\ UNCHANGED <<spawns, mgr_workers, seen_ok, directories>>)]_vars
    /\ (mgr_pc = "stopped") ~> (daemon = "stopped")

\* the source root could not be enumerated while a worker's Stop was on the bus:
\* nothing was launched and the daemon has ended
C17_Witness ==
    /\ config # None
    /\ mgr_pc = "stopped"
    /\ spawns = <<>>
    /\ mgr_workers = <<>>
    /\ bus_stops # {}
    /\ daemon = "stopped"

RECURSIVE Join(_)
\* the tokens separated by single spaces
Join(parts) ==
    IF parts = <<>> THEN ""
    ELSE IF Len(parts) = 1 THEN parts[1]
    ELSE parts[1] \o " " \o Join(Tail(parts))

\* the keys the grammar recognizes for each kind
RecognizedKeys ==
    [HELLO |-> {"host=", "pid="}, START |-> {"tool=", "dir="},
     PROGRESS |-> {"tool=", "dir=", "msg=", "bytes="},
     STOP |-> {"tool=", "dir=", "status=", "bytes=", "msg="}]

RECURSIVE KeepRecognized(_, _)
\* the tokens of parts whose key is recognized for the kind token
KeepRecognized(kind, parts) ==
    IF parts = <<>> THEN <<>>
    ELSE (IF \E k \in RecognizedKeys[kind] : StartsWith(parts[1], k) THEN <<parts[1]>> ELSE <<>>)
             \o KeepRecognized(kind, Tail(parts))

\* C21: for every line read whose first token is a kind, decoding gives the same
\* result for every order of the tokens after the kind, and the same result when
\* the tokens whose key the kind does not recognize are left out.
C21_AnyOrder ==
    \A c \in Conns : \A i \in 1..nread[c] :
        LET parts == SplitWhitespace(input[c][i])
            rest == Tail(parts)
        IN  Decodable(input[c][i]) =>
                /\ \A o \in Orders(1..Len(rest)) :
                       parse_worker_message(Join(<<parts[1]>> \o [j \in 1..Len(rest) |-> rest[o[j]]]))
                           = parse_worker_message(Join(parts))
                /\ parse_worker_message(Join(<<parts[1]>> \o KeepRecognized(parts[1], rest)))
                       = parse_worker_message(Join(parts))

RECURSIVE TokenValue(_, _)
\* the value of the first token of parts with the given key, if any
TokenValue(parts, key) ==
    IF parts = <<>> THEN None
    ELSE IF StartsWith(parts[1], key) THEN Some(SubSeq(parts[1], Len(key) + 1, Len(parts[1])))
    ELSE TokenValue(Tail(parts), key)

RECURSIVE WithoutKey(_, _)
\* parts without the tokens of the given key
WithoutKey(parts, key) ==
    IF parts = <<>> THEN <<>>
    ELSE (IF StartsWith(parts[1], key) THEN <<>> ELSE <<parts[1]>>) \o WithoutKey(Tail(parts), key)

\* the value is written as a non-negative integer
IsNatural(v) == v # "" /\ \A i \in 1..Len(v) : IsDigit(Char(v, i))

\* the line has a token of the given key whose value is not a non-negative integer
BadInteger(line, key) ==
    /\ TokenValue(Tail(SplitWhitespace(line)), key) # None
    /\ ~IsNatural(TokenValue(Tail(SplitWhitespace(line)), key)[1])

\* C22: a line whose bytes (or pid) value is not a non-negative integer is
\* decoded as the same line without that token, so with the field absent; applied
\* to the registry it leaves bytes transferred as it was, while a Stop still sets
\* the status and a Progress the last message.
C22_BadIntegerIsAbsent ==
    [][\A c \in Conns : LineStep(c) =>
           LET line == input[c][nread[c] + 1]
               parts == SplitWhitespace(line)
               m == conn'[c].message[1]
               new == workers'[WorkerId(m)]
           IN  /\ (Decodable(line) /\ BadInteger(line, "bytes=")) =>
                      /\ DecodeStep(c)
                      /\ m.bytes = None
                      /\ [res |-> "Ok", message |-> m]
                             = parse_worker_message(Join(WithoutKey(parts, "bytes=")))
                      /\ new.bytes_transferred = RecordBefore(m).bytes_transferred
                      /\ parts[1] = "STOP" =>
                             new.status = UnwrapOr(TokenValue(parts, "status="), "completed")
                      /\ parts[1] = "PROGRESS" =>
                             new.last_message = TokenValue(parts, "msg=")
               /\ (Decodable(line) /\ BadInteger(line, "pid=")) =>
                      /\ DecodeStep(c)
                      /\ m.pid = None
                      /\ [res |-> "Ok", message |-> m]
                             = parse_worker_message(Join(WithoutKey(parts, "pid=")))]_vars

\* a Stop with bytes=abc after a Progress with bytes=5: status "ok", bytes still 5
C22_Witness ==
    /\ nread[1] = 2
    /\ input[1][2] = "STOP tool=scan dir=/src/a status=ok bytes=abc\n"
    /\ "scan:/src/a" \in DOMAIN workers
    /\ workers["scan:/src/a"].status = "ok"
    /\ workers["scan:/src/a"].bytes_transferred = Some(5)

\* C25: for every line read that decodes to a message, serializing the message
\* and decoding the result gives the same message again.
C25_RoundTrip ==
    \A c \in Conns : \A i \in 1..nread[c] :
        LET r == parse_worker_message(Trim(input[c][i]))
        IN  r.res = "Ok" => parse_worker_message(Encode(r.message)) = r

\* the messages connection c's handler has decoded so far, in order
DecodedBy(c) == [i \in 1..nread[c] |-> parse_worker_message(Trim(input[c][i])).message]

RECURSIVE ForIdentity(_, _)
\* the messages of seq whose identity is id
ForIdentity(seq, id) ==
    IF seq = <<>> THEN <<>>
    ELSE (IF WorkerId(seq[1]) = id THEN <<seq[1]>> ELSE <<>>) \o ForIdentity(Tail(seq), id)

RECURSIVE Merges(_)
\* the interleavings of the sequences f[c] that keep each sequence's order
Merges(f) ==
    IF \A c \in DOMAIN f : f[c] = <<>> THEN { <<>> }
    ELSE UNION { { <<Head(f[c])>> \o rest : rest \in Merges([f EXCEPT ![c] = Tail(f[c])]) } :
                 c \in { d \in DOMAIN f : f[d] # <<>> } }

RECURSIVE ApplyAll(_, _)
\* the record after the messages of seq, one after the other
ApplyAll(rec, seq) ==
    IF seq = <<>> THEN rec
    ELSE LET m == seq[1] IN
         ApplyAll(CASE m.message_type = "Hello" ->
                           [rec EXCEPT !.host = m.host, !.pid = m.pid, !.connected = TRUE,
                                       !.status = "connected"]
                    [] m.message_type = "Start" -> [rec EXCEPT !.status = "running"]
                    [] m.message_type = "Progress" ->
                           [rec EXCEPT !.last_message = m.message,
                                       !.bytes_transferred = IF m.bytes = None THEN @ ELSE m.bytes]
                    [] OTHER ->
                           [rec EXCEPT !.status = IF m.status = None THEN "completed" ELSE m.status[1],
                                       !.bytes_transferred = IF m.bytes = None THEN @ ELSE m.bytes],
                  Tail(seq))

\* C23: whatever the interleaving of the handlers, the registry holds a record
\* for exactly the identities decoded, and each record is, the connectivity flag
\* aside, what applying every message decoded for its identity gives, in some
\* order that keeps each connection's order.
C23_UpdatesAreAtomic ==
    LET ids == UNION { { WorkerId(DecodedBy(c)[i]) : i \in 1..nread[c] } : c \in Conns } IN
    /\ DOMAIN workers = ids
    /\ \A id \in ids :
           \E seq \in Merges([c \in Conns |-> ForIdentity(DecodedBy(c), id)]) :
               SameExcept(ApplyAll(NewWorkerState(seq[1]), seq), workers[id], {"connected"})

\* both handlers have applied two messages, for two identities, one of which
\* both connections wrote to
C23_Witness ==
    /\ \A c \in Conns : c <= 2 => nread[c] = 2
    /\ input[1][2] = "STOP tool=scan dir=/src/a status=ok\n"
    /\ input[2][1] = "PROGRESS tool=scan dir=/src/a msg=working bytes=5\n"
    /\ input[2][2] = "PROGRESS tool=scan dir=/src/b msg=idle\n"
    /\ workers["scan:/src/a"].status = "ok"
    /\ workers["scan:/src/a"].bytes_transferred = Some(5)
    /\ workers["scan:/src/b"].last_message = Some("idle")


\* directory d has reached a terminal outcome in the manager's table
Terminal(d) ==
    \/ ("scan:" \o d) \in DOMAIN mgr_workers /\ mgr_workers["scan:" \o d].status = "Failed"
    \/ ("migrate:" \o d) \in DOMAIN mgr_workers
           /\ mgr_workers["migrate:" \o d].status \in {"Failed", "Completed"}

\* C24: when every launch succeeds, every launched worker sends the Stop of its
\* own job and all tasks are scheduled fairly, every directory with a scan worker
\* eventually reaches scan Failed, migrate Failed or migrate Completed, and every
\* directory whose ok scan Stop was decoded eventually has a migrate launch.
C24_EveryDirectoryTerminates ==
    \A d \in ManagedDirs :
        /\ (("scan:" \o d) \in DOMAIN mgr_workers) ~> Terminal(d)
        /\ (("scan:" \o d) \in DOMAIN mgr_workers /\ ("scan:" \o d) \in DOMAIN workers
                /\ workers["scan:" \o d].status = "ok")
               ~> (MigrateSpawns(d) # {})

\* the messages a handler is about to send and those a subscriber has yet to receive
Published == { conn[c].message[1] : c \in { x \in Conns : conn[x].pc = "send" } }
                 \cup { bus_queue[i].m : i \in 1..Len(bus_queue) }

\* record rec shows the effect of message m or of a later message of its identity
Reflects(rec, m) ==
    /\ rec.tool = m.tool
    /\ rec.directory = m.directory
    /\ m.message_type \in {"Hello", "Start", "Stop"} => rec.status # "unknown"
    /\ m.message_type \in {"Progress", "Stop"} /\ IsSome(m.bytes) => IsSome(rec.bytes_transferred)

\* C26: the registry is updated before the message is published: for every message
\* being sent or waiting on the bus, the record of its identity exists and shows
\* that message's effect or a later one, so it does when a subscriber receives it.
C26_RegistryBeforeBus ==
    \A m \in Published :
        WorkerId(m) \in DOMAIN workers /\ Reflects(workers[WorkerId(m)], m)

\* the manager is about to receive an ok scan Stop whose record already reads "ok"
C26_Witness ==
    /\ mgr_pc = "listening"
    /\ rx_lag = 0
    /\ bus_queue # <<>>
    /\ bus_queue[1].m.message_type = "Stop"
    /\ bus_queue[1].m.status = Some("ok")
    /\ WorkerId(bus_queue[1].m) \in DOMAIN mgr_workers
    /\ workers[WorkerId(bus_queue[1].m)].status = "ok"
    /\ workers[WorkerId(bus_queue[1].m)].bytes_transferred = Some(1000)

\* C27: every decoded Hello has the identity "unknown:unknown" and changes no other
\* record, and every record with another key has host and pid absent, also after
\* its worker's connection sent Hello and then Start.
C27_HelloKeyedUnknown ==
    /\ [](\A id \in DOMAIN workers :
              id # "unknown:unknown" => workers[id].host = None /\ workers[id].pid = None)
    /\ [][\A c \in Conns :
              (DecodeStep(c) /\ conn'[c].message[1].message_type = "Hello") =>
                  /\ WorkerId(conn'[c].message[1]) = "unknown:unknown"
                  /\ DOMAIN workers' = DOMAIN workers \cup {"unknown:unknown"}
                  /\ workers'["unknown:unknown"].host = conn'[c].message[1].host
                  /\ workers'["unknown:unknown"].pid = conn'[c].message[1].pid
                  /\ \A id \in DOMAIN workers \ {"unknown:unknown"} : workers'[id] = workers[id]]_vars

\* one connection sent the Hello that names scan and /src/a, then Start: the Hello
\* went to "unknown:unknown", the record of scan:/src/a has no host and no pid
C27_Witness ==
    /\ \E c \in Conns : nread[c] = 2 /\ conn[c].pc = "read" /\ conn[c].worker_id = Some("scan:/src/a")
    /\ "unknown:unknown" \in DOMAIN workers
    /\ workers["unknown:unknown"].host = Some("h2")
    /\ workers["unknown:unknown"].pid = Some(8)
    /\ workers["scan:/src/a"].status = "running"
    /\ workers["scan:/src/a"].host = None
    /\ workers["scan:/src/a"].pid = None

\* C28: end-of-stream clears the connectivity flag only of the identity of the
\* last line the handler decoded: a record is disconnected only if it is the last
\* identity of a connection that has closed, so the records of a connection's
\* earlier identities stay connected; and the end of a connection that decoded no
\* line changes no record.
C28_EofClearsLastIdentityOnly ==
    /\ [](\A id \in DOMAIN workers :
              ~workers[id].connected =>
                  \E c \in Conns : conn[c].pc = "closed" /\ conn[c].worker_id = Some(id))
    /\ [][\A c \in Conns : (EofStep(c) /\ conn[c].worker_id = None) => workers' = workers]_vars

\* one connection sent Hello then Start and closed, the other never read a line:
\* scan:/src/a is disconnected, "unknown:unknown" still reads connected
C28_Witness ==
    /\ \E c \in Conns :
           /\ nread[c] = 2
           /\ conn[c].pc = "closed"
           /\ conn[c].worker_id = Some("scan:/src/a")
           /\ \A x \in Conns \ {c} : nread[x] = 0
    /\ "unknown:unknown" \in DOMAIN workers
    /\ workers["unknown:unknown"].connected
    /\ workers["unknown:unknown"].status = "connected"
    /\ ~workers["scan:/src/a"].connected
    /\ workers["scan:/src/a"].status = "running"

============================================================================
